---- MODULE Spec2Model ----
(***************************************************************************)
(* Appointment scheduling of whitewalker-sa/ehass: the appointment store,  *)
(* the two appointmentService implementations kept in the repository (the  *)
(* model-taking one behind the HTTP handlers, and the one taking date and  *)
(* time strings) and the clock they read.                                  *)
(*                                                                         *)
(* Time is counted in ticks; TicksPerSecond ticks make a second, so that   *)
(* an instant may carry a fraction of a second, as an RFC3339 request time *)
(* may. An appointment's ID is its index in the store (the auto-increment  *)
(* primary key).                                                           *)
(*                                                                         *)
(* Beside them: CreateAppointment requests in flight between their         *)
(* database calls, the tokens and the refresh_token column of authService, *)
(* and the middleware chain the router puts before the handlers; the       *)
(* accounts of authService (registration, email verification, password     *)
(* reset, two-factor login) with the verification_tokens table.            *)
(***************************************************************************)
EXTENDS Integers, Sequences, FiniteSets

VARIABLES impl, appts, now, lastOp, inflight, users, issued, ctx, vtokens, serial

\* The state of authentication: the users table, the tokens handed to
\* clients, the gin context of the last HTTP request, the
\* verification_tokens table and the last ID its sequence gave out.
authVars == <<users, issued, ctx, vtokens, serial>>

vars == <<impl, appts, now, lastOp, inflight, authVars>>

(* ------------------------------ bounds -------------------------------- *)

\* Most appointments the store holds.
MaxAppts == 2
\* Clock resolution: ticks in a second.
TicksPerSecond == 2
\* Most users Register adds to the users table.
MaxRegistered == 1

\* Most verification tokens the sequence of the table gives out.
MaxTokens == 2

\* Most CreateAppointment requests in flight at once.
MaxInflight == 2

(* ------------------------------ time ---------------------------------- *)

Second == TicksPerSecond
Minute == 60 * Second
HalfHour == 30 * Minute
Hour == 60 * Minute

\* Number of appointments CreateAppointment and UpdateAppointment fetch.
FetchLimit == 100

\* The instants the clock takes: an hour before the first slot, the first
\* slot, the second slot (slots are half an hour apart).
ClockValues == {0, Hour, Hour + HalfHour}

\* The instants a request's RFC3339 time may name: the first slot, a
\* fraction of a second after the second slot, the third slot.
Instants == {Hour, Hour + HalfHour + 1, 2 * Hour}

\* The minutes a request's date and time strings may name ("2006-01-02
\* 15:04" has no seconds), and a string that does not parse.
BadDateTime == -1
MinuteInputs == {60, 90, BadDateTime}

\* A request field that was left out (the empty string).
NoTime == -2

(* ------------------------------ domain -------------------------------- *)

AppointmentStatusPending == "pending"
AppointmentStatusConfirmed == "confirmed"
AppointmentStatusCancelled == "cancelled"
AppointmentStatusCompleted == "completed"
AppointmentStatusNoShow == "no_show"

AppointmentStatus ==
    {AppointmentStatusPending, AppointmentStatusConfirmed,
     AppointmentStatusCancelled, AppointmentStatusCompleted,
     AppointmentStatusNoShow}

\* Rows of the doctors and patients tables; 3 is an ID with no row.
DoctorIDs == {1, 2}
PatientIDs == {1}
MissingID == 3

ErrDoctorNotFound == "doctor not found"
ErrPatientNotFound == "patient not found"
ErrNotFound == "appointment not found"
ErrPast == "appointment cannot be scheduled in the past"
ErrEndBeforeStart == "appointment end time must be after start time"
ErrConflict == "appointment time conflicts with an existing appointment"
ErrFinalUpdate == "cannot update a completed or cancelled appointment"
ErrFinalCancel == "appointment is already completed or cancelled"
ErrTooLate == "appointment cannot be cancelled less than 1 hour before the scheduled time"
ErrNotConfirmed == "only confirmed appointments can be completed"
ErrCompleteCancelled == "cannot complete a cancelled appointment"
ErrAlreadyCompleted == "appointment is already marked as completed"
ErrCompleteEarly == "cannot complete an appointment before its scheduled time"
ErrBadFormat == "invalid date or time format"
ErrInvalidLogin == "invalid email or password"
ErrEmailNotVerified == "email not verified, please verify your email first"
ErrTwoFactorRequired == "two-factor authentication required"
ErrEmailRegistered == "email already registered"
ErrRegisterUser == "failed to register user"
ErrCreateVerificationToken == "failed to create verification token"
ErrVerificationToken == "invalid or expired verification token"
ErrInvalidRefreshToken == "invalid refresh token"
ErrInvalidToken == "invalid token"
ErrInvalidUserID == "invalid user ID in token"
ErrFindUser == "failed to find user"
ErrInvalid2FA == "Invalid 2FA token"
NoErr == ""

IDs == DOMAIN appts

(* ------------------------- pure functions ----------------------------- *)

\* t.Format(time.RFC3339), read back by the database: the layout has no
\* fractional seconds, so the instant is cut to its second.
FormatRFC3339(t) == t - (t % TicksPerSecond)

\* parseDateTime: "2006-01-02 15:04" names a whole minute.
parseDateTime(m) == m * Minute

\* a.Before(b), a.After(b), a.Equal(b) of time.Time compare instants.
Before(a, b) == a < b
After(a, b) == a > b

\* appointmentRepository.FindByDateRange: the doctor's appointments whose
\* scheduled_start lies in [start, end], ORDER BY scheduled_start ASC
\* (ties by ID), cut to limit. The place of a row in the order is the
\* number of rows before it.
FindByDateRange(store, doctorID, start, end, limit) ==
    LET hit == {i \in DOMAIN store :
                  /\ store[i].doctor = doctorID
                  /\ store[i].start >= start
                  /\ store[i].start <= end}
        place == {<<Cardinality({j \in hit :
                                   \/ store[j].start < store[i].start
                                   \/ (store[j].start = store[i].start /\ j < i)}),
                    i>> : i \in hit}
        n == IF Cardinality(hit) < limit THEN Cardinality(hit) ELSE limit
    IN [k \in 1..n |-> (CHOOSE p \in place : p[1] = k - 1)[2]]

\* A faulty conflict condition that counts a window ending where the
\* fetched appointment starts.
ConflictsClosed(existing, start, end) ==
    /\ existing.status # AppointmentStatusCancelled
    /\ \/ (Before(start, existing.end) /\ ~Before(end, existing.start))
       \/ start = existing.start

\* The condition of the conflict loop on one fetched appointment.
Conflicts(existing, start, end) ==
    /\ existing.status # AppointmentStatusCancelled
    /\ \/ (Before(start, existing.end) /\ After(end, existing.start))
       \/ start = existing.start

\* "appointment cannot be scheduled in the past"
InPast(start, clock) == Before(start, clock)

\* A faulty end-before-start test, its operands swapped.
EndBeforeStartSwapped(start, end) == Before(start, end)

\* "appointment end time must be after start time"
EndBeforeStart(start, end) == Before(end, start)

\* A faulty final-status test that forgets cancelled appointments.
IsFinalCompletedOnly(status) == status = AppointmentStatusCompleted

\* Completed and cancelled appointments are not modified.
IsFinal(status) ==
    status = AppointmentStatusCompleted \/ status = AppointmentStatusCancelled

\* A faulty too-late test that only refuses once the start has passed.
TooLateToCancelPastOnly(start, clock) == start - clock < 0

\* time.Until(start) < time.Hour
TooLateToCancel(start, clock) == start - clock < Hour

\* The overlap check of CreateAppointment and UpdateAppointment: some
\* fetched appointment other than self conflicts (self = 0 on creation).
HasConflict(store, doctorID, start, end, self) ==
    LET rows == FindByDateRange(store, doctorID, FormatRFC3339(start),
                                FormatRFC3339(end), FetchLimit)
    IN \E k \in 1..Len(rows) :
          rows[k] # self /\ Conflicts(store[rows[k]], start, end)

\* A faulty initial status that keeps the status the caller gave.
SetInitialStatusIfEmpty(a) ==
    [a EXCEPT !.status = IF @ = "" THEN AppointmentStatusPending ELSE @]

\* "Set initial status": appointment.Status = AppointmentStatusPending
SetInitialStatus(a) == [a EXCEPT !.status = AppointmentStatusPending]

(* ------------- tokens and the Authorization header -------------------- *)

RolePatient == "patient"
RoleDoctor == "doctor"
RoleAdmin == "admin"

\* The rows of the users table.
UserRows ==
    <<[id |-> 1, email |-> "admin@ehass", role |-> RoleAdmin],
      [id |-> 2, email |-> "pat@ehass", role |-> RolePatient],
      [id |-> 3, email |-> "doc@ehass", role |-> RoleDoctor]>>
UserIDs == DOMAIN UserRows

\* The secrets tokens are signed with: cfg.Auth.AccessTokenSecret, the
\* jwtSecret of authService, and a key the server does not hold.
AccessTokenSecret == "AccessTokenSecret"
jwtSecret == "jwtSecret"
OtherSecret == "other"

\* cfg.Auth.AccessTokenExpiry, time.Duration(jwtExpiration) * time.Minute
\* and the 30 days of a refresh token.
AccessTokenExpiry == Hour
AccessTokenLifetime == Hour
RefreshTokenLifetime == 30 * 24 * Hour

\* t.Unix(): whole seconds.
Unix(t) == t \div TicksPerSecond

\* A claim the token does not carry.
NoClaim == "<none>"

\* The algorithms of jwt.SigningMethodHMAC.
SigningMethodHMAC == {"HS256", "HS384", "HS512"}

\* fmt.Sprintf("%d", userID) and utils.StringToUint (0: not a number).
UintStrings == <<"1", "2", "3", "4", "5", "6">>
FormatUint(n) == UintStrings[n]
StringToUint(s) ==
    IF \E n \in DOMAIN UintStrings : UintStrings[n] = s
    THEN CHOOSE n \in DOMAIN UintStrings : UintStrings[n] = s
    ELSE 0

\* jwt's check of "exp": a token with no exp does not expire, another is
\* valid while the clock is before it.
NotExpired(exp, clock) == exp = NoTime \/ Unix(clock) < exp

\* userService.generateToken: the token Login hands out, with id, email,
\* role and exp claims, signed HS256 with the access token secret.
generateToken(user, clock) ==
    [alg |-> "HS256", key |-> AccessTokenSecret,
     exp |-> Unix(clock + AccessTokenExpiry),
     idType |-> "float64", id |-> user.id,
     email |-> user.email, role |-> user.role]

\* A token of authService: jwt.StandardClaims with Subject, ExpiresAt and
\* IssuedAt, signed HS256.
StandardToken(key, userID, clock, lifetime) ==
    [alg |-> "HS256", key |-> key, sub |-> FormatUint(userID),
     exp |-> Unix(clock + lifetime), iat |-> Unix(clock)]

\* authService.generateTokens
generateTokens(userID, clock) ==
    [access |-> StandardToken(jwtSecret, userID, clock, AccessTokenLifetime),
     refresh |-> StandardToken(jwtSecret, userID, clock, RefreshTokenLifetime)]

\* jwt.ParseWithClaims(token, &jwt.StandardClaims{}, keyFunc) of authService
\* fails: the signature is not an HMAC of jwtSecret, the token has expired
\* or was issued in the future.
ParseWithClaimsFails(token, clock) ==
    \/ token.alg \notin SigningMethodHMAC
    \/ token.key # jwtSecret
    \/ ~NotExpired(token.exp, clock)
    \/ Unix(clock) < token.iat

\* The refresh_token column of a user who holds none.
NoToken == [sub |-> ""]

\* A row of the users table as authService reads it: a user the table is
\* seeded with has verified the email address, and no user starts with
\* two-factor authentication.
UserRow(email, verified) ==
    [email |-> email, refresh_token |-> NoToken, email_verified |-> verified,
     two_factor_auth |-> FALSE, secret2fa |-> ""]

\* model.TokenType
TokenTypeEmailVerification == "email_verification"
TokenTypePasswordReset == "password_reset"

\* "Token valid for 24 hours", "Token valid for 1 hour"
VerificationTokenLifetime == 24 * Hour
ResetTokenLifetime == Hour

\* authRepository.FindVerificationToken: the rows WHERE token = ? AND
\* type = ? AND expires_at > now (none: record not found).
FindVerificationToken(table, token, tokenType, clock) ==
    {v \in table : v.token = token /\ v.type = tokenType /\ v.expires_at > clock}

\* FindUserByEmail: the IDs of the rows WHERE email = ?.
FindUserByEmail(rows, email) == {u \in DOMAIN rows : rows[u].email = email}

\* The Authorization header: none, or its parts after
\* strings.SplitN(authHeader, " ", 2); NoJWT stands where no token is.
NoJWT ==
    [alg |-> "malformed", key |-> NoClaim, exp |-> NoTime, idType |-> "absent",
     id |-> 0, email |-> NoClaim, role |-> NoClaim]
NoHeader == [parts |-> 0, scheme |-> "", token |-> NoJWT]
Header(scheme, token) == [parts |-> 2, scheme |-> scheme, token |-> token]

\* A faulty header test that takes any scheme.
HeaderFormatOKAnyScheme(header) == header.parts = 2

\* len(parts) == 2 && parts[0] == "Bearer"
HeaderFormatOK(header) == header.parts = 2 /\ header.scheme = "Bearer"

\* The key function AuthMiddleware gives jwt.Parse.
KeyFunc(token) ==
    IF token.alg \in SigningMethodHMAC THEN AccessTokenSecret ELSE NoClaim

\* jwt.Parse(tokenString, keyFunc) succeeds and token.Valid is true: the
\* string is a token, the key function names a key, the signature is made
\* with it and the token has not expired.
ParseOK(token, clock) ==
    /\ token.alg # "malformed"
    /\ KeyFunc(token) # NoClaim
    /\ token.key = KeyFunc(token)
    /\ NotExpired(token.exp, clock)

\* The gin context of a request: the route, the Authorization header, what
\* the middleware answered and set, and the handler that was invoked.
NewContext(route, header) ==
    [route |-> route, header |-> header, aborted |-> FALSE, status |-> 0,
     error |-> NoErr, userID |-> 0, userEmail |-> NoClaim,
     userRole |-> NoClaim, handler |-> ""]

\* c.AbortWithStatusJSON(status, gin.H{"error": error})
AbortWithStatusJSON(c, status, error) ==
    [c EXCEPT !.aborted = TRUE, !.status = status, !.error = error]

\* AuthMiddleware on the context c with the clock at clock.
AuthMiddleware(c, clock) ==
    LET token == c.header.token
    IN IF c.header.parts = 0
       THEN AbortWithStatusJSON(c, 401, "authorization header required")
       ELSE IF ~HeaderFormatOK(c.header)
       THEN AbortWithStatusJSON(c, 401, "invalid authorization header format")
       ELSE IF ~ParseOK(token, clock)
       THEN AbortWithStatusJSON(c, 401, "invalid or expired token")
       ELSE IF token.idType # "float64"
       THEN AbortWithStatusJSON(c, 401, "invalid user ID in token")
       ELSE IF token.email = NoClaim
       THEN AbortWithStatusJSON(c, 401, "invalid email in token")
       ELSE IF token.role = NoClaim
       THEN AbortWithStatusJSON(c, 401, "invalid role in token")
       ELSE [c EXCEPT !.userID = token.id, !.userEmail = token.email,
                      !.userRole = token.role]

\* A faulty RoleMiddleware that lets every role through.
RoleMiddlewareAnyRole(roles, c) ==
    IF c.userRole = NoClaim
    THEN AbortWithStatusJSON(c, 401, "unauthorized")
    ELSE c

\* RoleMiddleware(roles...) on the context c. (Its 500 answer, for a
\* userRole that is no model.Role, needs a value AuthMiddleware never sets.)
RoleMiddleware(roles, c) ==
    IF c.userRole = NoClaim
    THEN AbortWithStatusJSON(c, 401, "unauthorized")
    ELSE IF c.userRole \notin roles
    THEN AbortWithStatusJSON(c, 403, "access denied")
    ELSE c

\* The routes of the router: the public ones, the protected group and the
\* admin group inside it (roles: the roles RoleMiddleware lets through,
\* empty when the route has no RoleMiddleware).
Route(method, path, handler, auth, roles) ==
    [method |-> method, path |-> path, handler |-> handler, auth |-> auth,
     roles |-> roles]

PublicRoutes ==
    {Route("GET", "/api/health", "health", FALSE, {}),
     Route("POST", "/api/v1/auth/register", "Register", FALSE, {}),
     Route("POST", "/api/v1/auth/login", "Login", FALSE, {})}

ProtectedRoutes ==
    {Route("GET", "/api/v1/users/profile", "GetProfile", TRUE, {}),
     Route("PUT", "/api/v1/users/profile", "UpdateProfile", TRUE, {}),
     Route("PUT", "/api/v1/users/change-password", "ChangePassword", TRUE, {}),
     Route("POST", "/api/v1/appointments", "CreateAppointment", TRUE, {}),
     Route("GET", "/api/v1/appointments/:id", "GetAppointmentByID", TRUE, {}),
     Route("PUT", "/api/v1/appointments/:id", "UpdateAppointment", TRUE, {}),
     Route("POST", "/api/v1/appointments/:id/cancel", "CancelAppointment", TRUE, {}),
     Route("POST", "/api/v1/appointments/:id/complete", "CompleteAppointment", TRUE, {}),
     Route("GET", "/api/v1/patients/:patient_id/appointments",
           "GetPatientAppointments", TRUE, {}),
     Route("GET", "/api/v1/doctors/:doctor_id/appointments",
           "GetDoctorAppointments", TRUE, {}),
     Route("GET", "/api/v1/doctors/:doctor_id/schedule", "GetDoctorSchedule",
           TRUE, {}),
     Route("GET", "/api/v1/admin/users/:id", "GetUserByID", TRUE, {RoleAdmin})}

Routes == PublicRoutes \cup ProtectedRoutes

\* A CreateAppointment request slot with no request in it.
Idle == [phase |-> "idle"]

(* ------------------------------ state --------------------------------- *)

\* What the last request was: the operation, the appointment it named (0
\* when it named none) and the error it returned.
Result(op, id, err) == [op |-> op, id |-> id, err |-> err]

Init ==
    /\ impl \in {"model", "strings"}
    /\ appts = <<>>
    /\ now = 0
    /\ lastOp = Result("init", 0, NoErr)
    /\ inflight = [r \in 1..MaxInflight |-> Idle]
    /\ users = [u \in UserIDs |-> UserRow(UserRows[u].email, TRUE)]
    /\ vtokens = {}
    /\ serial = 0
    /\ issued = {}
    /\ ctx = NewContext(Route("", "", "", FALSE, {}), NoHeader)

\* The clock moves on.
Tick ==
    /\ \E t \in ClockValues : t > now /\ now' = t
    /\ lastOp' = Result("tick", 0, NoErr)
    /\ UNCHANGED <<impl, appts, inflight, authVars>>


(* ---------------- the model-taking implementation --------------------- *)
(* src/internal/service/appointment_service.go, called by the handlers of *)
(* src/internal/handler/appointment_handler.go.                           *)

\* A faulty CreateAppointment that looks at the times before it looks up
\* the doctor and the patient.
CreateAppointmentErrTimeFirst(store, clock, doctorID, patientID, start, end) ==
    IF InPast(start, clock) THEN ErrPast
    ELSE IF EndBeforeStart(start, end) THEN ErrEndBeforeStart
    ELSE IF doctorID \notin DoctorIDs THEN ErrDoctorNotFound
    ELSE IF patientID \notin PatientIDs THEN ErrPatientNotFound
    ELSE IF HasConflict(store, doctorID, start, end, 0) THEN ErrConflict
    ELSE NoErr

\* appointmentService.CreateAppointment: the error it returns, NoErr when
\* the appointment is stored.
CreateAppointmentErr(store, clock, doctorID, patientID, start, end) ==
    IF doctorID \notin DoctorIDs THEN ErrDoctorNotFound
    ELSE IF patientID \notin PatientIDs THEN ErrPatientNotFound
    ELSE IF InPast(start, clock) THEN ErrPast
    ELSE IF EndBeforeStart(start, end) THEN ErrEndBeforeStart
    ELSE IF HasConflict(store, doctorID, start, end, 0) THEN ErrConflict
    ELSE NoErr

\* The status the appointment handed to CreateAppointment may carry: none
\* (the POST handler sets none), a status of the enumeration, any string.
CallerStatuses == {"", AppointmentStatusConfirmed, "bogus"}

\* POST /appointments: the handler builds the appointment from the request
\* and the service validates it, sets status pending and stores it.
CreateAppointment(patientID, doctorID, start, end) ==
    /\ impl = "model"
    /\ \E st \in CallerStatuses :
          LET err == CreateAppointmentErr(appts, now, doctorID, patientID, start, end)
              a == SetInitialStatus([doctor |-> doctorID, start |-> start,
                                     end |-> end, status |-> st, notes |-> ""])
          IN /\ appts' = IF err = NoErr THEN Append(appts, a) ELSE appts
             /\ lastOp' = Result("CreateAppointment",
                                  IF err = NoErr THEN Len(appts) + 1 ELSE 0, err)
    /\ UNCHANGED <<impl, now, inflight, authVars>>

\* A faulty UpdateAppointment that validates the times of every update.
UpdateAppointmentErrAlwaysChecks(store, clock, a) ==
    IF a.id \notin DOMAIN store THEN ErrNotFound
    ELSE IF IsFinal(store[a.id].status) THEN ErrFinalUpdate
    ELSE IF InPast(a.start, clock) THEN ErrPast
    ELSE IF EndBeforeStart(a.start, a.end) THEN ErrEndBeforeStart
    ELSE IF HasConflict(store, a.doctor, a.start, a.end, a.id) THEN ErrConflict
    ELSE NoErr

\* appointmentService.UpdateAppointment on the appointment a (a.id names
\* the stored row): the error it returns, NoErr when a is saved.
UpdateAppointmentErr(store, clock, a) ==
    IF a.id \notin DOMAIN store THEN ErrNotFound
    ELSE IF IsFinal(store[a.id].status) THEN ErrFinalUpdate
    ELSE IF a.start # store[a.id].start \/ a.end # store[a.id].end
    THEN IF InPast(a.start, clock) THEN ErrPast
         ELSE IF EndBeforeStart(a.start, a.end) THEN ErrEndBeforeStart
         ELSE IF HasConflict(store, a.doctor, a.start, a.end, a.id) THEN ErrConflict
         ELSE NoErr
    ELSE NoErr

\* The appointment the PUT handler hands to the service: the stored row
\* with every field the request gives written over it.
MergeRequest(row, id, reqStart, reqEnd, reqStatus, reqNotes) ==
    [id |-> id,
     doctor |-> row.doctor,
     start |-> IF reqStart # NoTime THEN reqStart ELSE row.start,
     end |-> IF reqEnd # NoTime THEN reqEnd ELSE row.end,
     status |-> IF reqStatus # "" THEN reqStatus ELSE row.status,
     notes |-> IF reqNotes # "" THEN reqNotes ELSE row.notes]

\* appointmentRepository.Update: Save writes every field of a.
Save(store, a) ==
    [store EXCEPT ![a.id] = [doctor |-> a.doctor, start |-> a.start,
                             end |-> a.end, status |-> a.status,
                             notes |-> a.notes]]

\* PUT /appointments/{id}
UpdateAppointment(id, reqStart, reqEnd, reqStatus, reqNotes) ==
    /\ impl = "model"
    /\ IF id \notin IDs
       THEN /\ appts' = appts
            /\ lastOp' = Result("UpdateAppointment", id, ErrNotFound)
       ELSE LET a == MergeRequest(appts[id], id, reqStart, reqEnd, reqStatus, reqNotes)
                err == UpdateAppointmentErr(appts, now, a)
            IN /\ appts' = IF err = NoErr THEN Save(appts, a) ELSE appts
               /\ lastOp' = Result("UpdateAppointment", id, err)
    /\ UNCHANGED <<impl, now, inflight, authVars>>

\* appointmentService.CancelAppointment
CancelAppointmentErr(store, clock, id) ==
    IF id \notin DOMAIN store THEN ErrNotFound
    ELSE IF IsFinal(store[id].status) THEN ErrFinalCancel
    ELSE IF TooLateToCancel(store[id].start, clock) THEN ErrTooLate
    ELSE NoErr

\* POST /appointments/{id}/cancel
CancelAppointment(id) ==
    /\ impl = "model"
    /\ LET err == CancelAppointmentErr(appts, now, id)
       IN /\ appts' = IF err = NoErr
                      THEN [appts EXCEPT ![id].status = AppointmentStatusCancelled]
                      ELSE appts
          /\ lastOp' = Result("CancelAppointment", id, err)
    /\ UNCHANGED <<impl, now, inflight, authVars>>

\* appointmentService.CompleteAppointment
CompleteAppointmentErr(store, id) ==
    IF id \notin DOMAIN store THEN ErrNotFound
    ELSE IF store[id].status # AppointmentStatusConfirmed THEN ErrNotConfirmed
    ELSE NoErr

\* POST /appointments/{id}/complete
CompleteAppointment(id, notes) ==
    /\ impl = "model"
    /\ LET err == CompleteAppointmentErr(appts, id)
       IN /\ appts' = IF err = NoErr
                      THEN [appts EXCEPT ![id].status = AppointmentStatusCompleted,
                                         ![id].notes = notes]
                      ELSE appts
          /\ lastOp' = Result("CompleteAppointment", id, err)
    /\ UNCHANGED <<impl, now, inflight, authVars>>

(* ----------- the implementation taking date and time strings ---------- *)
(* src/unnamed/part_009                                                   *)

\* CreateAppointment(patientID, doctorID, date, timeStr, reason): the
\* strings are parsed and a 30 minute appointment is stored.
CreateAppointmentStr(patientID, doctorID, dateTime) ==
    /\ impl = "strings"
    /\ IF dateTime = BadDateTime
       THEN /\ appts' = appts
            /\ lastOp' = Result("CreateAppointmentStr", 0, ErrBadFormat)
       ELSE /\ appts' = Append(appts, [doctor |-> doctorID,
                                       start |-> parseDateTime(dateTime),
                                       end |-> parseDateTime(dateTime) + HalfHour,
                                       status |-> AppointmentStatusPending,
                                       notes |-> ""])
            /\ lastOp' = Result("CreateAppointmentStr", Len(appts) + 1, NoErr)
    /\ UNCHANGED <<impl, now, inflight, authVars>>

\* UpdateAppointment(id, date, timeStr, status, reason): the error it
\* returns; dateTime = NoTime when date or timeStr is empty.
UpdateAppointmentStrErr(store, clock, id, dateTime) ==
    IF id \notin DOMAIN store THEN ErrNotFound
    ELSE IF IsFinal(store[id].status) THEN ErrFinalUpdate
    ELSE IF dateTime = NoTime THEN NoErr
    ELSE IF dateTime = BadDateTime THEN ErrBadFormat
    ELSE IF InPast(parseDateTime(dateTime), clock) THEN ErrPast
    ELSE IF HasConflict(store, store[id].doctor, parseDateTime(dateTime),
                        parseDateTime(dateTime) + HalfHour, id) THEN ErrConflict
    ELSE NoErr

UpdateAppointmentStr(id, dateTime, status) ==
    /\ impl = "strings"
    /\ LET err == UpdateAppointmentStrErr(appts, now, id, dateTime)
       IN /\ appts' =
               IF err # NoErr THEN appts
               ELSE [appts EXCEPT
                       ![id].start = IF dateTime = NoTime THEN @
                                     ELSE parseDateTime(dateTime),
                       ![id].end = IF dateTime = NoTime THEN @
                                   ELSE parseDateTime(dateTime) + HalfHour,
                       ![id].status = IF status # "" THEN status ELSE @]
          /\ lastOp' = Result("UpdateAppointmentStr", id, err)
    /\ UNCHANGED <<impl, now, inflight, authVars>>

\* CancelAppointment of part_009: the same guards.
CancelAppointmentStrErr(store, clock, id) ==
    IF id \notin DOMAIN store THEN ErrNotFound
    ELSE IF IsFinal(store[id].status) THEN ErrFinalCancel
    ELSE IF TooLateToCancel(store[id].start, clock) THEN ErrTooLate
    ELSE NoErr

CancelAppointmentStr(id) ==
    /\ impl = "strings"
    /\ LET err == CancelAppointmentStrErr(appts, now, id)
       IN /\ appts' = IF err = NoErr
                      THEN [appts EXCEPT ![id].status = AppointmentStatusCancelled]
                      ELSE appts
          /\ lastOp' = Result("CancelAppointmentStr", id, err)
    /\ UNCHANGED <<impl, now, inflight, authVars>>

\* CompleteAppointment of part_009
CompleteAppointmentStrErr(store, clock, id) ==
    IF id \notin DOMAIN store THEN ErrNotFound
    ELSE IF store[id].status = AppointmentStatusCancelled THEN ErrCompleteCancelled
    ELSE IF store[id].status = AppointmentStatusCompleted THEN ErrAlreadyCompleted
    ELSE IF Before(clock, store[id].start) THEN ErrCompleteEarly
    ELSE NoErr

CompleteAppointmentStr(id, notes) ==
    /\ impl = "strings"
    /\ LET err == CompleteAppointmentStrErr(appts, now, id)
       IN /\ appts' = IF err = NoErr
                      THEN [appts EXCEPT ![id].status = AppointmentStatusCompleted,
                                         ![id].notes = notes]
                      ELSE appts
          /\ lastOp' = Result("CompleteAppointmentStr", id, err)
    /\ UNCHANGED <<impl, now, inflight, authVars>>

(* ------------- CreateAppointment, one database call at a time --------- *)
(* The model-taking CreateAppointment reads the schedule with one          *)
(* statement and inserts with another, in no transaction: requests in      *)
(* flight interleave between the two.                                       *)

\* Lines 36-81 of request r: the lookups, the time checks and the conflict
\* check on the schedule as it is read now. An error is answered at once;
\* otherwise the appointment, its status set, waits for its insert.
CreateAppointmentCheck(r, patientID, doctorID, start, end) ==
    /\ impl = "model"
    /\ inflight[r].phase = "idle"
    /\ LET err == CreateAppointmentErr(appts, now, doctorID, patientID, start, end)
           a == SetInitialStatus([doctor |-> doctorID, start |-> start,
                                  end |-> end, status |-> "", notes |-> ""])
       IN IF err # NoErr
          THEN /\ lastOp' = Result("CreateAppointment", 0, err)
               /\ UNCHANGED inflight
          ELSE /\ inflight' = [inflight EXCEPT ![r] = [phase |-> "checked", a |-> a]]
               /\ UNCHANGED lastOp
    /\ UNCHANGED <<impl, appts, now, authVars>>

\* Line 84 of request r: appointmentRepo.Create.
CreateAppointmentInsert(r) ==
    /\ impl = "model"
    /\ inflight[r].phase = "checked"
    /\ appts' = Append(appts, inflight[r].a)
    /\ lastOp' = Result("CreateAppointment", Len(appts) + 1, NoErr)
    /\ inflight' = [inflight EXCEPT ![r] = Idle]
    /\ UNCHANGED <<impl, now, authVars>>

(* ------- CancelAppointment and CompleteAppointment, call by call ------ *)
(* Both read the appointment with FindByID, test the row they read, set    *)
(* its status and write the whole row back with Update, in no              *)
(* transaction: requests in flight interleave between read and write.      *)

\* Lines 166-184 of request r: the appointment is read and tested; an
\* error is answered at once, otherwise the row, its status set to
\* cancelled, waits for its Update.
CancelAppointmentLoad(r, id) ==
    /\ impl = "model"
    /\ inflight[r].phase = "idle"
    /\ LET err == CancelAppointmentErr(appts, now, id)
       IN IF err # NoErr
          THEN /\ lastOp' = Result("CancelAppointment", id, err)
               /\ UNCHANGED inflight
          ELSE /\ inflight' =
                    [inflight EXCEPT ![r] =
                        [phase |-> "loaded", op |-> "CancelAppointment", id |-> id,
                         a |-> [appts[id] EXCEPT !.status = AppointmentStatusCancelled]]]
               /\ UNCHANGED lastOp
    /\ UNCHANGED <<impl, appts, now, authVars>>

\* Lines 190-203 of request r: the same for CompleteAppointment, which
\* sets status completed and the notes.
CompleteAppointmentLoad(r, id, notes) ==
    /\ impl = "model"
    /\ inflight[r].phase = "idle"
    /\ LET err == CompleteAppointmentErr(appts, id)
       IN IF err # NoErr
          THEN /\ lastOp' = Result("CompleteAppointment", id, err)
               /\ UNCHANGED inflight
          ELSE /\ inflight' =
                    [inflight EXCEPT ![r] =
                        [phase |-> "loaded", op |-> "CompleteAppointment", id |-> id,
                         a |-> [appts[id] EXCEPT !.status = AppointmentStatusCompleted,
                                                 !.notes = notes]]]
               /\ UNCHANGED lastOp
    /\ UNCHANGED <<impl, appts, now, authVars>>

\* appointmentRepository.Update of request r: Save writes every column of
\* the row the request holds, and the request answers without error.
Update(r) ==
    /\ impl = "model"
    /\ inflight[r].phase = "loaded"
    /\ appts' = [appts EXCEPT ![inflight[r].id] = inflight[r].a]
    /\ lastOp' = Result(inflight[r].op, inflight[r].id, NoErr)
    /\ inflight' = [inflight EXCEPT ![r] = Idle]
    /\ UNCHANGED <<impl, now, authVars>>

(* ------------------------------ authService --------------------------- *)
(* src/internal/service/oauth_service.go                                  *)

\* A faulty Login that does not look at email_verified.
LoginErrUnverified(rows, u, passwordOK) ==
    IF u \notin DOMAIN rows \/ ~passwordOK THEN ErrInvalidLogin
    ELSE IF rows[u].two_factor_auth THEN ErrTwoFactorRequired
    ELSE NoErr

\* authService.Login: the error it returns. The two-factor error comes
\* after the refresh token was stored.
LoginErr(rows, u, passwordOK) ==
    IF u \notin DOMAIN rows \/ ~passwordOK THEN ErrInvalidLogin
    ELSE IF ~rows[u].email_verified THEN ErrEmailNotVerified
    ELSE IF rows[u].two_factor_auth THEN ErrTwoFactorRequired
    ELSE NoErr

\* authService.Login of the user u the email names (no row: the email is
\* unknown), with the right or a wrong password: the tokens are
\* generated and the refresh token is stored; they are returned unless
\* the user has two-factor authentication.
Login(u, passwordOK) ==
    /\ LET err == LoginErr(users, u, passwordOK)
           tokens == generateTokens(u, now)
       IN /\ users' = IF err \in {NoErr, ErrTwoFactorRequired}
                      THEN [users EXCEPT ![u].refresh_token = tokens.refresh]
                      ELSE users
          /\ issued' = IF err = NoErr
                       THEN issued \cup {tokens.access, tokens.refresh}
                       ELSE issued
          /\ lastOp' = Result("Login",
                               IF err \in {NoErr, ErrTwoFactorRequired}
                               THEN u ELSE 0, err)
    /\ UNCHANGED <<impl, appts, now, inflight, ctx, vtokens, serial>>

\* authRepository.UpdateRefreshToken: UPDATE ... WHERE id = userID.
UpdateRefreshToken(rows, userID, token) ==
    IF userID \in DOMAIN rows
    THEN [rows EXCEPT ![userID].refresh_token = token]
    ELSE rows

\* authService.RefreshToken: the error it returns.
RefreshTokenErr(refreshToken, clock) ==
    IF ParseWithClaimsFails(refreshToken, clock) THEN ErrInvalidRefreshToken
    ELSE IF StringToUint(refreshToken.sub) = 0 THEN ErrInvalidUserID
    ELSE NoErr

\* authService.RefreshToken
RefreshToken(refreshToken) ==
    /\ IF RefreshTokenErr(refreshToken, now) # NoErr
       THEN /\ lastOp' = Result("RefreshToken", 0, RefreshTokenErr(refreshToken, now))
            /\ UNCHANGED <<users, issued>>
       ELSE LET userID == StringToUint(refreshToken.sub)
                tokens == generateTokens(userID, now)
            IN /\ users' = UpdateRefreshToken(users, userID, tokens.refresh)
               /\ issued' = issued \cup {tokens.access, tokens.refresh}
               /\ lastOp' = Result("RefreshToken", userID, NoErr)
    /\ UNCHANGED <<impl, appts, now, inflight, ctx, vtokens, serial>>

\* authService.Logout: the refresh token of the token's user is cleared.
Logout(token) ==
    /\ IF ParseWithClaimsFails(token, now)
       THEN /\ lastOp' = Result("Logout", 0, "invalid token")
            /\ UNCHANGED users
       ELSE IF StringToUint(token.sub) = 0
       THEN /\ lastOp' = Result("Logout", 0, "invalid user ID in token")
            /\ UNCHANGED users
       ELSE /\ users' = UpdateRefreshToken(users, StringToUint(token.sub), NoToken)
            /\ lastOp' = Result("Logout", StringToUint(token.sub), NoErr)
    /\ UNCHANGED <<impl, appts, now, inflight, issued, ctx, vtokens, serial>>

\* authService.ValidateToken: the error it returns.
ValidateTokenErr(rows, token, clock) ==
    IF ParseWithClaimsFails(token, clock) THEN ErrInvalidToken
    ELSE IF StringToUint(token.sub) = 0 THEN ErrInvalidUserID
    ELSE IF StringToUint(token.sub) \notin DOMAIN rows THEN ErrFindUser
    ELSE NoErr

\* authService.ValidateToken
ValidateToken(token) ==
    /\ lastOp' =
          IF ValidateTokenErr(users, token, now) # NoErr
          THEN Result("ValidateToken", 0, ValidateTokenErr(users, token, now))
          ELSE Result("ValidateToken", StringToUint(token.sub), NoErr)
    /\ UNCHANGED <<impl, appts, now, inflight, authVars>>

(* ---------------------- accounts of authService ----------------------- *)
(* src/internal/service/oauth_service.go and its handlers of               *)
(* src/unnamed/part_006                                                    *)

\* The repository or mail call of Register and of RequestPasswordReset
\* that fails, "none" when all succeed.
RegisterFaults ==
    {"none", "RegisterUser", "CreateVerificationToken", "SendVerificationEmail"}
ResetFaults == {"none", "CreateVerificationToken", "SendPasswordResetEmail"}

\* The model.VerificationToken Register and RequestPasswordReset build.
\* utils.GenerateRandomToken(32) is 32 random bytes: a value no earlier
\* token has, here the ID the row gets.
NewVerificationToken(id, userID, tokenType, clock, lifetime) ==
    [id |-> id, user_id |-> userID, token |-> id, type |-> tokenType,
     expires_at |-> clock + lifetime]

\* authService.Register: the error it returns.
RegisterErr(rows, email, fault) ==
    IF FindUserByEmail(rows, email) # {} THEN ErrEmailRegistered
    ELSE IF fault = "RegisterUser" THEN ErrRegisterUser
    ELSE IF fault = "CreateVerificationToken" THEN ErrCreateVerificationToken
    ELSE IF fault = "SendVerificationEmail" THEN "failed to send verification email"
    ELSE NoErr

\* authService.Register(name, email, password, role): the user is stored
\* unverified, then the verification token is stored, then the mail is
\* sent; each step that fails returns its error and leaves what the
\* steps before it stored.
Register(email, fault) ==
    /\ FindUserByEmail(users, email) # {}
       \/ Len(users) < Cardinality(UserIDs) + MaxRegistered
    /\ LET err == RegisterErr(users, email, fault)
           u == Len(users) + 1
           userStored == err \notin {ErrEmailRegistered, ErrRegisterUser}
           tokenStored == userStored /\ err # ErrCreateVerificationToken
       IN /\ users' = IF userStored THEN Append(users, UserRow(email, FALSE))
                      ELSE users
          /\ vtokens' = IF tokenStored
                        THEN vtokens \cup
                             {NewVerificationToken(serial + 1, u,
                                                   TokenTypeEmailVerification,
                                                   now, VerificationTokenLifetime)}
                        ELSE vtokens
          /\ serial' = IF tokenStored THEN serial + 1 ELSE serial
          /\ lastOp' = Result("Register", IF err = NoErr THEN u ELSE 0, err)
    /\ UNCHANGED <<impl, appts, now, inflight, issued, ctx>>

\* authService.VerifyEmail(token): the token's user is marked verified
\* and the token is deleted.
VerifyEmail(token) ==
    /\ LET found == FindVerificationToken(vtokens, token,
                                          TokenTypeEmailVerification, now)
       IN IF found = {}
          THEN /\ lastOp' = Result("VerifyEmail", 0, ErrVerificationToken)
               /\ UNCHANGED <<users, vtokens>>
          ELSE LET v == CHOOSE v \in found : TRUE
               IN /\ users' = IF v.user_id \in DOMAIN users
                               THEN [users EXCEPT ![v.user_id].email_verified = TRUE]
                               ELSE users
                  /\ vtokens' = {w \in vtokens : w.id # v.id}
                  /\ lastOp' = Result("VerifyEmail", v.user_id, NoErr)
    /\ UNCHANGED <<impl, appts, now, inflight, issued, ctx, serial>>

\* What binding:"required,email" accepts.
WellFormedEmails == {"pat@ehass", "new@ehass", "two@ehass"}
MalformedEmail == "nobody"
IsEmail(email) == email \in WellFormedEmails

\* authService.RequestPasswordReset: the error it returns (none for an
\* email no user has).
RequestPasswordResetErr(rows, email, fault) ==
    IF FindUserByEmail(rows, email) = {} THEN NoErr
    ELSE IF fault = "CreateVerificationToken" THEN "failed to create reset token"
    ELSE IF fault = "SendPasswordResetEmail" THEN "failed to send password reset email"
    ELSE NoErr

ResetMessage ==
    "If your email is registered, you will receive password reset instructions"
ErrBinding == "Key: 'RequestPasswordResetRequest.Email' Error:Field validation"

\* A faulty answer of the handler that reports the error of the service.
RequestPasswordResetAnswerLeaky(email, err) ==
    IF ~IsEmail(email) THEN Result("RequestPasswordReset", 400, ErrBinding)
    ELSE IF err # NoErr THEN Result("RequestPasswordReset", 500, err)
    ELSE Result("RequestPasswordReset", 200, ResetMessage)

\* AuthHandler.RequestPasswordReset: status and body of the answer, given
\* the request's email and the error of the service.
RequestPasswordResetAnswer(email, err) ==
    IF ~IsEmail(email) THEN Result("RequestPasswordReset", 400, ErrBinding)
    ELSE IF err # NoErr THEN Result("RequestPasswordReset", 200, ResetMessage)
    ELSE Result("RequestPasswordReset", 200, ResetMessage)

\* POST /auth/request-password-reset with its service call: for the
\* email of a user a reset token is stored and mailed.
RequestPasswordReset(email, fault) ==
    /\ serial < MaxTokens
    /\ LET err == RequestPasswordResetErr(users, email, fault)
           found == FindUserByEmail(users, email)
           tokenStored == /\ IsEmail(email)
                          /\ found # {}
                          /\ fault # "CreateVerificationToken"
       IN /\ vtokens' = IF tokenStored
                        THEN vtokens \cup
                             {NewVerificationToken(serial + 1,
                                                   CHOOSE u \in found : TRUE,
                                                   TokenTypePasswordReset,
                                                   now, ResetTokenLifetime)}
                        ELSE vtokens
          /\ serial' = IF tokenStored THEN serial + 1 ELSE serial
          /\ lastOp' = RequestPasswordResetAnswer(email,
                                                   IF IsEmail(email) THEN err ELSE NoErr)
    /\ UNCHANGED <<impl, appts, now, inflight, users, issued, ctx>>

\* The token field of a 2FA request is one string: six digits, which
\* totp.Validate reads as a passcode and jwt.ParseWithClaims cannot split
\* into the three segments of a JWT, or a JWT, which has no six digits.
NoCode == [secret |-> "", counter |-> 0]
NotAToken ==
    [alg |-> "malformed", key |-> NoClaim, sub |-> "", exp |-> NoTime, iat |-> 0]
CodeString(code) == [digits |-> code, jwt |-> NotAToken]
TokenString(token) == [digits |-> NoCode, jwt |-> token]

\* The passcode of a secret at an instant: one for each period of 30
\* seconds.
TOTPPeriod == 30
TOTPCode(secret, clock) ==
    [secret |-> secret, counter |-> Unix(clock) \div TOTPPeriod]

\* totp.Validate(passcode, secret): six digits that are the passcode of
\* the secret in this period, the one before or the one after.
Validate(passcode, secret, clock) ==
    /\ passcode # NoCode
    /\ passcode.secret = secret
    /\ passcode.counter - TOTPCode(secret, clock).counter \in {-1, 0, 1}

\* authService.Enable2FA(userID, secret, token): with a passcode of the
\* secret the user's two_factor_auth is set and the secret stored.
Enable2FA(userID, secret, s) ==
    /\ IF ~Validate(s.digits, secret, now)
       THEN /\ lastOp' = Result("Enable2FA", 0, "invalid 2FA token")
            /\ UNCHANGED users
       ELSE /\ users' = IF userID \in DOMAIN users
                        THEN [users EXCEPT ![userID].two_factor_auth = TRUE,
                                           ![userID].secret2fa = secret]
                        ELSE users
            /\ lastOp' = Result("Enable2FA", userID, NoErr)
    /\ UNCHANGED <<impl, appts, now, inflight, issued, ctx, vtokens, serial>>

\* AuthHandler.Verify2FA: status and error of the answer to userId and
\* token. The passcode is checked by authService.Verify2FA, then the same
\* string is handed to ValidateToken and to RefreshToken.
Verify2FAAnswer(rows, userID, s, clock) ==
    IF userID \notin DOMAIN rows THEN Result("Verify2FA", 500, ErrFindUser)
    ELSE IF ~Validate(s.digits, rows[userID].secret2fa, clock)
    THEN Result("Verify2FA", 401, ErrInvalid2FA)
    ELSE IF ValidateTokenErr(rows, s.jwt, clock) # NoErr
    THEN Result("Verify2FA", 500, ValidateTokenErr(rows, s.jwt, clock))
    ELSE IF RefreshTokenErr(s.jwt, clock) # NoErr
    THEN Result("Verify2FA", 500, RefreshTokenErr(s.jwt, clock))
    ELSE Result("Verify2FA", 200, NoErr)

\* POST /auth/verify-2fa
Verify2FA(userID, s) ==
    /\ LET answer == Verify2FAAnswer(users, userID, s, now)
           tokens == generateTokens(StringToUint(s.jwt.sub), now)
       IN /\ lastOp' = answer
          /\ users' = IF answer.id = 200
                      THEN UpdateRefreshToken(users, StringToUint(s.jwt.sub),
                                              tokens.refresh)
                      ELSE users
          /\ issued' = IF answer.id = 200
                       THEN issued \cup {tokens.access, tokens.refresh}
                       ELSE issued
    /\ UNCHANGED <<impl, appts, now, inflight, ctx, vtokens, serial>>

\* The clock of the accounts: hours and days pass.
LongClockValues == {0, Hour, 25 * Hour}
TickLong ==
    /\ \E t \in LongClockValues : t > now /\ now' = t
    /\ lastOp' = Result("tick", 0, NoErr)
    /\ UNCHANGED <<impl, appts, inflight, authVars>>

(* ------------------------------ the router ---------------------------- *)

\* One HTTP request on a route with an Authorization header: the
\* middleware of the route's groups run in order, each one aborting the
\* chain or calling the next, and the handler is invoked at its end.
Serve(route, header) ==
    /\ LET c0 == NewContext(route, header)
           c1 == IF route.auth THEN AuthMiddleware(c0, now) ELSE c0
           c2 == IF ~c1.aborted /\ route.roles # {}
                 THEN RoleMiddleware(route.roles, c1)
                 ELSE c1
           c3 == IF c2.aborted THEN c2 ELSE [c2 EXCEPT !.handler = route.handler]
       IN /\ ctx' = c3
          /\ lastOp' = Result("Serve", c3.status, c3.error)
    /\ UNCHANGED <<impl, appts, now, inflight, users, issued, vtokens, serial>>

(* --------------------------- specification ---------------------------- *)

\* What a request may carry.
TimeInputs == Instants \cup {NoTime}
StatusInputs == {"", "bogus"} \cup AppointmentStatus
NotesInputs == {"seen"}
IDInputs == 1..MaxAppts

\* The requests of both implementations, with their fields drawn from the
\* given sets: doctor and patient IDs, request instants, and the times and
\* statuses an update request names. Appointments are created while the
\* store holds fewer than MaxAppts.
Requests(patients, doctors, instants, minutes, putTimes, putStatuses) ==
    \/ /\ Len(appts) < MaxAppts
       /\ \E p \in patients, d \in doctors, s \in instants, e \in instants :
             CreateAppointment(p, d, s, e)
    \/ \E id \in IDInputs, s \in putTimes, e \in putTimes, st \in putStatuses :
          UpdateAppointment(id, s, e, st, "")
    \/ \E id \in IDInputs : CancelAppointment(id)
    \/ \E id \in IDInputs, n \in NotesInputs : CompleteAppointment(id, n)
    \/ /\ Len(appts) < MaxAppts
       /\ \E p \in PatientIDs, d \in doctors \cap DoctorIDs, m \in minutes :
             CreateAppointmentStr(p, d, m)
    \/ \E id \in IDInputs, m \in minutes \cup {NoTime}, st \in putStatuses :
          UpdateAppointmentStr(id, m, st)
    \/ \E id \in IDInputs : CancelAppointmentStr(id)
    \/ \E id \in IDInputs, n \in NotesInputs : CompleteAppointmentStr(id, n)

\* Scheduling: every doctor, patient and instant; an update moves the
\* appointment and names no status.
Next ==
    \/ Tick
    \/ Requests(PatientIDs \cup {MissingID}, DoctorIDs \cup {MissingID},
                Instants, MinuteInputs, TimeInputs, {""})

Spec == Init /\ [][Next]_vars

\* Lifecycle: one doctor and the two slots; an update may name any status.
NextLifecycle ==
    \/ Tick
    \/ Requests(PatientIDs, {1}, {Hour, Hour + HalfHour}, {60, BadDateTime},
                {NoTime, Hour + HalfHour}, StatusInputs)

SpecLifecycle == Init /\ [][NextLifecycle]_vars

\* Slot booking: one doctor, slots on whole seconds that follow one
\* another, and room for one appointment more, so that a slot is booked,
\* cancelled and booked again beside another appointment.
SlotInstants == {Hour, Hour + HalfHour, 2 * Hour}
SlotIDs == 1..(MaxAppts + 1)

NextSlots ==
    \/ Tick
    \/ /\ Len(appts) <= MaxAppts
       /\ \E p \in PatientIDs, s \in SlotInstants, e \in SlotInstants :
             CreateAppointment(p, 1, s, e)
    \/ \E id \in SlotIDs : CancelAppointment(id)
    \/ /\ Len(appts) <= MaxAppts
       /\ \E p \in PatientIDs, m \in {60, 90} : CreateAppointmentStr(p, 1, m)
    \/ \E id \in SlotIDs : CancelAppointmentStr(id)

SpecSlots == Init /\ [][NextSlots]_vars

\* Concurrency: CreateAppointment requests for the slots, interleaved at
\* their database calls.
NextConcurrent ==
    \/ Tick
    \/ /\ Len(appts) + Cardinality({r \in 1..MaxInflight :
                                       inflight[r].phase = "checked"}) < MaxAppts
       /\ \E r \in 1..MaxInflight, p \in PatientIDs, d \in DoctorIDs,
             s \in SlotInstants, e \in SlotInstants :
             CreateAppointmentCheck(r, p, d, s, e)
    \/ \E r \in 1..MaxInflight : CreateAppointmentInsert(r)

SpecConcurrent == Init /\ [][NextConcurrent]_vars

\* Tokens a client may present that authService did not sign: one signed
\* with another key, one of another algorithm.
ForgedTokens ==
    {StandardToken(OtherSecret, 1, 0, RefreshTokenLifetime),
     [StandardToken(jwtSecret, 1, 0, RefreshTokenLifetime) EXCEPT !.alg = "none"]}

\* Sessions: users 1 and 2 log in, refresh, log out and have tokens
\* validated, with the tokens they were handed or forged ones.
NextTokens ==
    \/ Tick
    \/ \E u \in {1, 2}, passwordOK \in BOOLEAN : Login(u, passwordOK)
    \/ \E token \in issued \cup ForgedTokens : RefreshToken(token)
    \/ \E token \in issued \cup ForgedTokens : Logout(token)
    \/ \E token \in issued \cup ForgedTokens : ValidateToken(token)

SpecTokens == Init /\ [][NextTokens]_vars

\* The tokens a request may carry: those Login hands out, one of a role
\* the server does not know, one that never expires, and tokens with one
\* defect each (not a token, another algorithm, another key, an id that is
\* a string or missing, no email, no role).
RequestTokens ==
    LET good == {generateToken(UserRows[u], 0) : u \in UserIDs}
        base == {generateToken(UserRows[1], 0)}
    IN good
       \cup {[generateToken(UserRows[1], 0) EXCEPT !.role = "nurse"],
             [generateToken(UserRows[1], 0) EXCEPT !.exp = NoTime]}
       \cup {[tok EXCEPT !.alg = a] : tok \in base, a \in {"malformed", "none", "RS256"}}
       \cup {[tok EXCEPT !.key = OtherSecret] : tok \in base}
       \cup {[tok EXCEPT !.idType = ty] : tok \in base, ty \in {"string", "absent"}}
       \cup {[tok EXCEPT !.email = NoClaim] : tok \in base}
       \cup {[tok EXCEPT !.role = NoClaim] : tok \in base}

\* The Authorization headers a request may carry.
RequestHeaders ==
    {NoHeader, [parts |-> 1, scheme |-> "Bearer", token |-> NoJWT]}
    \cup {Header("Bearer", tok) : tok \in RequestTokens}
    \cup {Header(scheme, generateToken(UserRows[1], 0)) : scheme \in {"Basic", "bearer"}}

\* HTTP: requests on every route.
NextHTTP ==
    \/ Tick
    \/ \E route \in Routes, header \in RequestHeaders : Serve(route, header)

SpecHTTP == Init /\ [][NextHTTP]_vars

\* Accounts: users register, verify their email, log in and ask for a
\* password reset, with any token the table ever held or none it held.
NextAccounts ==
    \/ TickLong
    \/ \E email \in WellFormedEmails, fault \in RegisterFaults :
          serial < MaxTokens /\ Register(email, fault)
    \/ \E token \in 0..serial : VerifyEmail(token)
    \/ \E u \in (Cardinality(UserIDs) + 1)..(Len(users) + 1), passwordOK \in BOOLEAN :
          Login(u, passwordOK)
    \/ \E email \in WellFormedEmails \cup {MalformedEmail}, fault \in ResetFaults :
          RequestPasswordReset(email, fault)

SpecAccounts == Init /\ [][NextAccounts]_vars

\* The strings a 2FA request may carry: the passcodes of the secrets now
\* and at the start, and the tokens handed to clients.
Secrets == {"JBSWY3DP", "KRSXG5A"}
TwoFactorStrings ==
    {CodeString(TOTPCode(secret, clock)) : secret \in Secrets, clock \in {0, now}}
    \cup {TokenString(token) : token \in issued}

\* Two-factor login: users 1 and 2 enable 2FA, log in and send their
\* passcode.
NextTwoFactor ==
    \/ Tick
    \/ \E u \in {1, 2}, passwordOK \in BOOLEAN : Login(u, passwordOK)
    \/ \E u \in {1, 2}, secret \in Secrets, s \in TwoFactorStrings :
          Enable2FA(u, secret, s)
    \/ \E u \in {1, 2, Len(users) + 1}, s \in TwoFactorStrings : Verify2FA(u, s)

SpecTwoFactor == Init /\ [][NextTwoFactor]_vars

\* Status changes in flight: appointments of doctor 1 are booked and
\* confirmed, and cancelled and completed by requests that interleave at
\* their database calls.
NextStatusRace ==
    \/ Tick
    \/ /\ Len(appts) < MaxAppts
       /\ \E s \in {Hour, Hour + HalfHour} : CreateAppointment(1, 1, s, 2 * Hour)
    \/ \E id \in IDInputs :
          UpdateAppointment(id, NoTime, NoTime, AppointmentStatusConfirmed, "")
    \/ \E r \in 1..MaxInflight, id \in IDInputs : CancelAppointmentLoad(r, id)
    \/ \E r \in 1..MaxInflight, id \in IDInputs, n \in NotesInputs :
          CompleteAppointmentLoad(r, id, n)
    \/ \E r \in 1..MaxInflight : Update(r)

SpecStatusRace == Init /\ [][NextStatusRace]_vars

\* A crowded slot: doctor 1 has had one appointment more than the fetch
\* limit booked on [01:00, 01:30) and cancelled, one after the other (a
\* cancelled appointment does not block its slot), before the clock
\* moved.
CrowdedRows ==
    [i \in 1..(FetchLimit + 1) |->
        [doctor |-> 1, start |-> Hour, end |-> Hour + HalfHour,
         status |-> AppointmentStatusCancelled, notes |-> ""]]

InitCrowded ==
    /\ impl \in {"model", "strings"}
    /\ appts = CrowdedRows
    /\ now = 0
    /\ lastOp = Result("CancelAppointment", FetchLimit + 1, NoErr)
    /\ inflight = [r \in 1..MaxInflight |-> Idle]
    /\ users = [u \in UserIDs |-> UserRow(UserRows[u].email, TRUE)]
    /\ vtokens = {}
    /\ serial = 0
    /\ issued = {}
    /\ ctx = NewContext(Route("", "", "", FALSE, {}), NoHeader)

\* Bookings and cancellations of doctor 1 after the crowd.
NextCrowded ==
    \/ Tick
    \/ /\ Len(appts) < FetchLimit + 1 + MaxAppts
       /\ \E s \in {Hour, Hour + HalfHour} : CreateAppointment(1, 1, s, 2 * Hour)
    \/ \E id \in (FetchLimit + 2)..(FetchLimit + 1 + MaxAppts) : CancelAppointment(id)
    \/ /\ Len(appts) < FetchLimit + 1 + MaxAppts
       /\ \E m \in {60, 75} : CreateAppointmentStr(1, 1, m)
    \/ \E id \in (FetchLimit + 2)..(FetchLimit + 1 + MaxAppts) : CancelAppointmentStr(id)

SpecCrowded == InitCrowded /\ [][NextCrowded]_vars

(* ------------------------------ claims -------------------------------- *)

\* The half-open windows [start, end) of two appointments share an instant.
Intersect(a, b) ==
    /\ a.start < b.end /\ b.start < a.end
    /\ a.start < a.end /\ b.start < b.end

\* C1: after any sequence of CreateAppointment, UpdateAppointment,
\* CancelAppointment and CompleteAppointment requests of the model-taking
\* service, no two non-cancelled appointments of one doctor have
\* intersecting half-open windows.
C1_NoOverlap ==
    impl = "model" =>
        \A i \in IDs, j \in IDs :
            (/\ i # j
             /\ appts[i].doctor = appts[j].doctor
             /\ appts[i].status # AppointmentStatusCancelled
             /\ appts[j].status # AppointmentStatusCancelled)
            => ~Intersect(appts[i], appts[j])

\* What C2 takes the conflict check to look at: some non-cancelled
\* appointment of the doctor, whenever it starts, overlaps the proposed
\* window or starts with it.
ClaimedConflict(store, doctorID, start, end) ==
    \E i \in DOMAIN store :
        /\ store[i].doctor = doctorID
        /\ store[i].status # AppointmentStatusCancelled
        /\ \/ (store[i].start < end /\ store[i].end > start)
           \/ store[i].start = start

\* C2: CreateAppointment of the model-taking service, called with an
\* existing doctor and patient, a start not in the past and an end not
\* before the start, returns the conflict error exactly when some stored
\* non-cancelled appointment of the doctor overlaps the window or starts
\* with it.
C2_ConflictIff ==
    [][lastOp'.op = "CreateAppointment" =>
         \A p \in PatientIDs, d \in DoctorIDs, s \in Instants, e \in Instants :
            (s >= now /\ e >= s /\ CreateAppointment(p, d, s, e))
            => (lastOp'.err = ErrConflict <=> ClaimedConflict(appts, d, s, e))]_vars

\* C3: no CreateAppointment call whose start is earlier than the clock
\* stores an appointment: it returns an error and the store is unchanged,
\* in the model-taking service and in the one taking date and time strings.
C3_NoPastCreate ==
    [][/\ lastOp'.op = "CreateAppointment" =>
             \A p \in PatientIDs \cup {MissingID}, d \in DoctorIDs \cup {MissingID},
                s \in Instants, e \in Instants :
                (s < now /\ CreateAppointment(p, d, s, e))
                => (lastOp'.err # NoErr /\ appts' = appts)
       /\ lastOp'.op = "CreateAppointmentStr" =>
             \A p \in PatientIDs, d \in DoctorIDs, m \in MinuteInputs \ {BadDateTime} :
                (parseDateTime(m) < now /\ CreateAppointmentStr(p, d, m))
                => (lastOp'.err # NoErr /\ appts' = appts)]_vars

\* C4: CreateAppointment with an end earlier than the start returns an
\* error and stores nothing; UpdateAppointment that changes either time to
\* values with the end earlier than the start returns an error and leaves
\* the stored appointment unchanged. (A step that did not return an error
\* with the store unchanged is no such request.)
C4_EndBeforeStartRejected ==
    [][/\ lastOp'.op = "CreateAppointment" =>
             \/ (lastOp'.err # NoErr /\ appts' = appts)
             \/ \A p \in PatientIDs \cup {MissingID}, d \in DoctorIDs \cup {MissingID},
                   s \in Instants, e \in Instants :
                   ~(e < s /\ CreateAppointment(p, d, s, e))
       /\ (lastOp'.op = "UpdateAppointment" /\ lastOp'.id \in IDs) =>
             LET id == lastOp'.id
             IN \/ (lastOp'.err # NoErr /\ appts'[id] = appts[id])
                \/ \A s \in TimeInputs, e \in TimeInputs :
                      LET a == MergeRequest(appts[id], id, s, e, "", "")
                      IN (/\ a.end < a.start
                          /\ (a.start # appts[id].start \/ a.end # appts[id].end))
                         => \A st \in StatusInputs :
                               ~UpdateAppointment(id, s, e, st, "")]_vars

\* C4's case: an update that moved the end before the start was refused.
C4_Witness ==
    /\ lastOp.op = "UpdateAppointment"
    /\ lastOp.err = ErrEndBeforeStart
    /\ lastOp.id \in IDs

\* C5: CreateAppointment is refused with the conflict error whenever the
\* doctor has a stored non-cancelled appointment with the same start,
\* whatever the two ends are (zero-length windows included).
C5_SameStartRejected ==
    [][lastOp'.op = "CreateAppointment" =>
         \A p \in PatientIDs, d \in DoctorIDs, s \in Instants, e \in Instants :
            (/\ s >= now /\ e >= s
             /\ \E i \in IDs : /\ appts[i].doctor = d
                               /\ appts[i].status # AppointmentStatusCancelled
                               /\ appts[i].start = s
             /\ CreateAppointment(p, d, s, e))
            => lastOp'.err = ErrConflict]_vars

\* C6: CancelAppointment called when less than an hour remains before the
\* start (or the start has passed) returns an error and leaves the stored
\* status unchanged, whatever the status is, in both implementations.
C6_LateCancelRejected ==
    [][\A id \in IDs :
          (/\ lastOp'.op \in {"CancelAppointment", "CancelAppointmentStr"}
           /\ lastOp'.id = id
           /\ appts[id].start - now < Hour
           /\ CancelAppointment(id) \/ CancelAppointmentStr(id))
          => (lastOp'.err # NoErr /\ appts'[id].status = appts[id].status)]_vars

\* C6's case: the cancellation of a confirmed appointment was refused as
\* too late.
C6_Witness ==
    /\ lastOp.op = "CancelAppointment"
    /\ lastOp.err = ErrTooLate
    /\ lastOp.id \in IDs
    /\ appts[lastOp.id].start - now < Hour
    /\ appts[lastOp.id].status = AppointmentStatusConfirmed

\* C7: CompleteAppointment called while the clock is before the start
\* returns an error and leaves status and notes unchanged, whatever the
\* status is, in both implementations.
C7_EarlyCompleteRejected ==
    [][\A id \in IDs, n \in NotesInputs :
          (/\ lastOp'.op \in {"CompleteAppointment", "CompleteAppointmentStr"}
           /\ lastOp'.id = id
           /\ now < appts[id].start
           /\ CompleteAppointment(id, n) \/ CompleteAppointmentStr(id, n))
          => /\ lastOp'.err # NoErr
             /\ appts'[id].status = appts[id].status
             /\ appts'[id].notes = appts[id].notes]_vars

\* The requests that write to a stored appointment.
WritingOps ==
    {"UpdateAppointment", "CancelAppointment", "CompleteAppointment",
     "UpdateAppointmentStr", "CancelAppointmentStr", "CompleteAppointmentStr"}

\* C8: once an appointment is completed or cancelled, every later
\* UpdateAppointment, CancelAppointment and CompleteAppointment on it
\* returns an error, and no step changes any of its fields.
C8_FinalStaysFinal ==
    [][\A id \in IDs :
          appts[id].status \in {AppointmentStatusCompleted, AppointmentStatusCancelled}
          => /\ appts'[id] = appts[id]
             /\ (lastOp'.op \in WritingOps /\ lastOp'.id = id)
                => lastOp'.err # NoErr]_vars

\* C8's case: an update of a completed appointment was refused.
C8_Witness ==
    /\ lastOp.op = "UpdateAppointment"
    /\ lastOp.err = ErrFinalUpdate
    /\ lastOp.id \in IDs
    /\ appts[lastOp.id].status = AppointmentStatusCompleted

\* The place of a status on pending -> confirmed -> {completed, cancelled,
\* no_show}.
Rank(status) ==
    IF status = AppointmentStatusPending THEN 0
    ELSE IF status = AppointmentStatusConfirmed THEN 1
    ELSE 2

\* C9: a stored status only moves forward along pending -> confirmed ->
\* {completed, cancelled, no_show}: no request moves an appointment from
\* confirmed back to pending, or from no_show to another status.
C9_StatusForward ==
    [][\A id \in IDs :
          (appts[id].status \in AppointmentStatus /\ appts'[id].status \in AppointmentStatus)
          => /\ Rank(appts'[id].status) >= Rank(appts[id].status)
             /\ appts[id].status = AppointmentStatusNoShow
                => appts'[id].status = AppointmentStatusNoShow]_vars

\* C10: the status of every stored appointment is one of pending,
\* confirmed, cancelled, completed, no_show.
C10_StatusInEnum ==
    \A id \in IDs : appts[id].status \in AppointmentStatus

\* C11: an UpdateAppointment that leaves the start where it is and turns
\* the status into cancelled when less than an hour remains before the
\* start, or into completed before the start, is rejected: no update
\* step makes such a status change.
C11_UpdateRespectsGuards ==
    [][(/\ lastOp'.op \in {"UpdateAppointment", "UpdateAppointmentStr"}
        /\ lastOp'.id \in IDs) =>
          LET id == lastOp'.id
          IN (/\ appts'[id].start = appts[id].start
              /\ appts'[id].status # appts[id].status)
             => /\ appts'[id].status = AppointmentStatusCancelled
                   => ~(appts[id].start - now < Hour)
                /\ appts'[id].status = AppointmentStatusCompleted
                   => ~(now < appts[id].start)]_vars

\* C16: the appointment a successful CreateAppointment stores is the last
\* row of the store and its status is pending, whatever status the caller
\* gave, in both implementations.
C16_CreatedPending ==
    [][(/\ lastOp'.op \in {"CreateAppointment", "CreateAppointmentStr"}
        /\ lastOp'.err = NoErr)
       => /\ Len(appts') = Len(appts) + 1
          /\ lastOp'.id = Len(appts')
          /\ appts'[Len(appts')].status = AppointmentStatusPending]_vars

\* C16's case: the model-taking CreateAppointment has just stored an
\* appointment, and it is pending.
C16_Witness ==
    /\ lastOp.op = "CreateAppointment"
    /\ lastOp.err = NoErr
    /\ lastOp.id = Len(appts)
    /\ lastOp.id \in IDs
    /\ appts[lastOp.id].status = AppointmentStatusPending

\* The overlap of the conflict rule as the specification words it:
\* existing.start < new.end AND existing.end > new.start.
SpecOverlap(existing, start, end) ==
    existing.start < end /\ existing.end > start

\* Some cancelled appointment of the doctor has exactly the window.
CancelledWindow(doctorID, start, end) ==
    \E x \in IDs : /\ appts[x].status = AppointmentStatusCancelled
                   /\ appts[x].doctor = doctorID
                   /\ appts[x].start = start
                   /\ appts[x].end = end

\* C17 as stated: once X is cancelled, a CreateAppointment for X's doctor
\* and exactly X's window, not in the past, with a valid patient and no
\* other non-cancelled appointment of the doctor overlapping the window,
\* succeeds.
C17_CancelFreesSlot ==
    [][/\ lastOp'.op = "CreateAppointment" =>
             \A p \in PatientIDs, s \in SlotInstants, e \in SlotInstants :
                (/\ s >= now
                 /\ CancelledWindow(1, s, e)
                 /\ \A i \in IDs :
                       (appts[i].doctor = 1
                        /\ appts[i].status # AppointmentStatusCancelled)
                       => ~SpecOverlap(appts[i], s, e)
                 /\ CreateAppointment(p, 1, s, e))
                => lastOp'.err = NoErr
       /\ lastOp'.op = "CreateAppointmentStr" =>
             \A p \in PatientIDs, m \in {60, 90} :
                (/\ parseDateTime(m) >= now
                 /\ CancelledWindow(1, parseDateTime(m), parseDateTime(m) + HalfHour)
                 /\ \A i \in IDs :
                       (appts[i].doctor = 1
                        /\ appts[i].status # AppointmentStatusCancelled)
                       => ~SpecOverlap(appts[i], parseDateTime(m),
                                       parseDateTime(m) + HalfHour)
                 /\ CreateAppointmentStr(p, 1, m))
                => lastOp'.err = NoErr]_vars

\* C17 amended: once X is cancelled, a CreateAppointment for X's doctor and
\* exactly X's window, not in the past, with a valid patient and no other
\* non-cancelled appointment of the doctor that overlaps the window or
\* starts at the same instant, succeeds.
C17_CancelFreesSlotNoSameStart ==
    [][/\ lastOp'.op = "CreateAppointment" =>
             \A p \in PatientIDs, s \in SlotInstants, e \in SlotInstants :
                (/\ s >= now
                 /\ CancelledWindow(1, s, e)
                 /\ ~ClaimedConflict(appts, 1, s, e)
                 /\ CreateAppointment(p, 1, s, e))
                => lastOp'.err = NoErr
       /\ lastOp'.op = "CreateAppointmentStr" =>
             \A p \in PatientIDs, m \in {60, 90} :
                (/\ parseDateTime(m) >= now
                 /\ CancelledWindow(1, parseDateTime(m), parseDateTime(m) + HalfHour)
                 /\ ~ClaimedConflict(appts, 1, parseDateTime(m),
                                     parseDateTime(m) + HalfHour)
                 /\ CreateAppointmentStr(p, 1, m))
                => lastOp'.err = NoErr]_vars

\* C17's case: a window was booked again after the appointment that held
\* it was cancelled, beside another appointment that is not cancelled.
C17_Witness ==
    /\ lastOp.op = "CreateAppointment"
    /\ lastOp.err = NoErr
    /\ lastOp.id \in IDs
    /\ \E x \in IDs \ {lastOp.id} :
          /\ appts[x].status = AppointmentStatusCancelled
          /\ appts[x].doctor = appts[lastOp.id].doctor
          /\ appts[x].start = appts[lastOp.id].start
          /\ appts[x].end = appts[lastOp.id].end
    /\ \E y \in IDs \ {lastOp.id} :
          /\ appts[y].status # AppointmentStatusCancelled
          /\ appts[y].doctor = appts[lastOp.id].doctor

\* Appointment i is not cancelled, has a positive length and ends where
\* the window starts or starts where the window ends.
BackToBack(i, doctorID, start, end) ==
    /\ appts[i].doctor = doctorID
    /\ appts[i].status # AppointmentStatusCancelled
    /\ appts[i].start < appts[i].end
    /\ appts[i].end = start \/ appts[i].start = end

\* C18: CreateAppointment for a window of positive length, not in the
\* past, with a valid patient, that follows or precedes a stored
\* non-cancelled appointment of positive length back to back, is accepted
\* when no stored non-cancelled appointment of the doctor overlaps the
\* window or starts with it.
C18_BackToBackAccepted ==
    [][lastOp'.op = "CreateAppointment" =>
         \A p \in PatientIDs, s \in SlotInstants, e \in SlotInstants :
            (/\ s >= now /\ s < e
             /\ \E i \in IDs : BackToBack(i, 1, s, e)
             /\ ~ClaimedConflict(appts, 1, s, e)
             /\ CreateAppointment(p, 1, s, e))
            => lastOp'.err = NoErr]_vars

\* C18's case: an appointment was stored that ends where a stored
\* non-cancelled appointment starts.
C18_Witness ==
    /\ lastOp.op = "CreateAppointment"
    /\ lastOp.err = NoErr
    /\ lastOp.id \in IDs
    /\ appts[lastOp.id].start < appts[lastOp.id].end
    /\ \E i \in IDs \ {lastOp.id} :
          /\ appts[i].doctor = appts[lastOp.id].doctor
          /\ appts[i].status # AppointmentStatusCancelled
          /\ appts[i].start < appts[i].end
          /\ appts[i].start = appts[lastOp.id].end

\* C19: CompleteAppointment on an appointment whose status is pending,
\* no_show, cancelled or completed returns an error and leaves status and
\* notes unchanged, in both implementations.
C19_CompleteOnlyConfirmed ==
    [][(/\ lastOp'.op \in {"CompleteAppointment", "CompleteAppointmentStr"}
        /\ lastOp'.id \in IDs) =>
          LET id == lastOp'.id
          IN appts[id].status \in AppointmentStatus \ {AppointmentStatusConfirmed}
             => /\ lastOp'.err # NoErr
                /\ appts'[id].status = appts[id].status
                /\ appts'[id].notes = appts[id].notes]_vars

\* C20: a CreateAppointment of the model-taking service that returns an
\* error leaves the store as it was; with no row for the doctor it returns
\* "doctor not found", and with a doctor but no row for the patient
\* "patient not found", whatever the times are and whatever is stored.
C20_ErrorLeavesStore ==
    [][lastOp'.op = "CreateAppointment" =>
         /\ lastOp'.err # NoErr => appts' = appts
         /\ \A p \in PatientIDs \cup {MissingID}, d \in DoctorIDs \cup {MissingID},
               s \in Instants, e \in Instants :
               ((d \notin DoctorIDs \/ p \notin PatientIDs)
                /\ CreateAppointment(p, d, s, e))
               => lastOp'.err = IF d \notin DoctorIDs THEN ErrDoctorNotFound
                                 ELSE ErrPatientNotFound]_vars

\* C20's case: with appointments stored and the first slot already past,
\* a CreateAppointment was refused for its patient.
C20_Witness ==
    /\ lastOp.op = "CreateAppointment"
    /\ lastOp.err = ErrPatientNotFound
    /\ lastOp.id = 0
    /\ Len(appts) > 0
    /\ now > Hour

\* The stored appointments the conflict check of CreateAppointment would
\* fetch and find in conflict with the appointment a.
ConflictingRows(store, a) ==
    LET rows == FindByDateRange(store, a.doctor, FormatRFC3339(a.start),
                                FormatRFC3339(a.end), FetchLimit)
    IN {rows[k] : k \in {n \in 1..Len(rows) :
                           Conflicts(store[rows[n]], a.start, a.end)}}

\* C12: the conflict check and the insert of a CreateAppointment request
\* are atomic with respect to the other requests: when a request inserts
\* its appointment, the conflict check run on the schedule as it is then
\* still finds no appointment whose window intersects the new one, so
\* that of two requests in flight for the same doctor with intersecting
\* windows at most one stores its appointment.
C12_CheckAndInsertAtomic ==
    [][\A r \in 1..MaxInflight :
          (inflight[r].phase = "checked" /\ CreateAppointmentInsert(r))
          => \A i \in ConflictingRows(appts, inflight[r].a) :
                ~Intersect(appts[i], inflight[r].a)]_vars

\* What C13 calls a request with a valid bearer token: the header is
\* "Bearer <token>", the token is a JWT signed with an HMAC of the access
\* token secret, not expired, and carries id, email and role claims.
ClaimedValidBearer(header, clock) ==
    /\ header.parts = 2
    /\ header.scheme = "Bearer"
    /\ header.token.alg \in SigningMethodHMAC
    /\ header.token.key = AccessTokenSecret
    /\ header.token.exp = NoTime \/ Unix(clock) < header.token.exp
    /\ header.token.idType # "absent"
    /\ header.token.email # NoClaim
    /\ header.token.role # NoClaim

\* C13: on every route of the protected group the handler is invoked only
\* for a request with a valid bearer token, and every other request is
\* answered 401 with no handler invoked.
C13_HandlerOnlyWithValidToken ==
    (lastOp.op = "Serve" /\ ctx.route \in ProtectedRoutes)
    => /\ ctx.handler # "" => ClaimedValidBearer(ctx.header, now)
       /\ ~ClaimedValidBearer(ctx.header, now)
          => (ctx.status = 401 /\ ctx.aborted /\ ctx.handler = "")

\* C13's case: a request on a protected appointment route carried a token
\* signed with a key that is not the server's, and was answered 401.
C13_Witness ==
    /\ lastOp.op = "Serve"
    /\ ctx.route \in ProtectedRoutes
    /\ ctx.route.handler = "CancelAppointment"
    /\ ctx.header.parts = 2
    /\ ctx.header.scheme = "Bearer"
    /\ ctx.header.token.key = OtherSecret
    /\ ctx.status = 401
    /\ ctx.handler = ""

\* C14: the handler of GET /admin/users/:id is invoked only with the role
\* admin in the context; with the role patient or doctor the request is
\* answered 403, with no role in the context 401, and in both cases no
\* handler is invoked.
C14_AdminOnly ==
    (lastOp.op = "Serve" /\ ctx.route.handler = "GetUserByID")
    => /\ ctx.handler # "" => ctx.userRole = RoleAdmin
       /\ ctx.userRole \in {RolePatient, RoleDoctor}
          => (ctx.status = 403 /\ ctx.aborted /\ ctx.handler = "")
       /\ ctx.userRole = NoClaim
          => (ctx.status = 401 /\ ctx.aborted /\ ctx.handler = "")

\* C14's case: a request with a valid token of role doctor on the admin
\* route was answered 403.
C14_Witness ==
    /\ lastOp.op = "Serve"
    /\ ctx.route.handler = "GetUserByID"
    /\ ctx.userRole = RoleDoctor
    /\ ctx.status = 403
    /\ ctx.handler = ""

\* C15: right after a Logout that succeeded for a user, RefreshToken and
\* ValidateToken called with a token that was issued to that user (so
\* before the logout) fail.
C15_LogoutInvalidatesTokens ==
    [][(/\ lastOp.op = "Logout"
        /\ lastOp.err = NoErr
        /\ lastOp'.op \in {"RefreshToken", "ValidateToken"})
       => \A token \in issued :
             (/\ StringToUint(token.sub) = lastOp.id
              /\ RefreshToken(token) \/ ValidateToken(token))
             => lastOp'.err # NoErr]_vars

\* C21: every stored appointment ends strictly later than it starts, as
\* "appointment end time must be after start time" says.
C21_EndAfterStart ==
    \A id \in IDs : appts[id].end > appts[id].start

\* The users Register created (the others are the seed of the table).
LocalUsers(rows) == {u \in DOMAIN rows : u > Cardinality(UserIDs)}

\* The rows of the table that hold the token string tok.
Holding(table, tok) == {v \in table : v.token = tok}

C23_ResetAnswerSame ==
    [][\A email \in WellFormedEmails, fault \in ResetFaults :
          RequestPasswordReset(email, fault)
          => lastOp' = Result("RequestPasswordReset", 200, ResetMessage)]_vars

\* A reset was asked for: a reset token is stored for one user while
\* another well-formed email belongs to nobody.
C23_Witness ==
    /\ lastOp = Result("RequestPasswordReset", 200, ResetMessage)
    /\ \E v \in vtokens : v.type = TokenTypePasswordReset
    /\ \E email \in WellFormedEmails : FindUserByEmail(users, email) = {}

\* C29: a Register that returns an error leaves no user of the given
\* email that it created, so that the email can be registered again:
\* when no user had the email before the call, none has it after.
C29_RegisterErrorLeavesNoUser ==
    [][\A email \in WellFormedEmails, fault \in RegisterFaults :
          (/\ Register(email, fault)
           /\ lastOp'.err # NoErr
           /\ FindUserByEmail(users, email) = {})
          => FindUserByEmail(users', email) = {}]_vars

\* C24: a user with two-factor authentication finishes logging in: when
\* Login has just answered "two-factor authentication required" for the
\* user, a verify-2fa request with the user's ID and the passcode of the
\* user's secret at that instant is answered 200 and hands out tokens.
C24_TwoFactorLoginCompletes ==
    [][\A u \in DOMAIN users :
          (/\ lastOp = Result("Login", u, ErrTwoFactorRequired)
           /\ Verify2FA(u, CodeString(TOTPCode(users[u].secret2fa, now))))
          => /\ lastOp'.id = 200
             /\ issued' # issued]_vars

\* A reschedule of appointment id to the window w that C25 is about: the
\* appointment may be modified, w is another window than the stored one,
\* does not start in the past, intersects the stored window, and no
\* other non-cancelled appointment of the doctor intersects w.
SelfOverlapOnly(id, w) ==
    /\ ~IsFinal(appts[id].status)
    /\ w.start # appts[id].start \/ w.end # appts[id].end
    /\ ~(w.start < now)
    /\ Intersect(w, appts[id])
    /\ \A j \in IDs \ {id} :
          (/\ appts[j].doctor = appts[id].doctor
           /\ appts[j].status # AppointmentStatusCancelled)
          => ~Intersect(appts[j], w)

\* C25: UpdateAppointment reports no conflict of an appointment with
\* itself: a reschedule to a window that intersects only the
\* appointment's own stored window succeeds, in both implementations.
C25_NoSelfConflict ==
    [][(/\ lastOp'.op \in {"UpdateAppointment", "UpdateAppointmentStr"}
        /\ lastOp'.id \in IDs)
       => LET id == lastOp'.id
          IN /\ \A s \in TimeInputs, e \in TimeInputs :
                   (/\ SelfOverlapOnly(id, MergeRequest(appts[id], id, s, e, "", ""))
                    /\ UpdateAppointment(id, s, e, "", ""))
                   => lastOp'.err = NoErr
             /\ \A m \in MinuteInputs \ {BadDateTime} :
                   (/\ SelfOverlapOnly(id, [start |-> parseDateTime(m),
                                            end |-> parseDateTime(m) + HalfHour])
                    /\ UpdateAppointmentStr(id, m, ""))
                   => lastOp'.err = NoErr]_vars

\* C26: the model-taking UpdateAppointment validates the times only of an
\* update that changes the start or the end: it returns the past-start,
\* end-before-start or conflict error only for such an update, and an
\* update that keeps both times succeeds on a pending, confirmed or
\* no_show appointment, also when its start is in the past, and changes
\* no other appointment. Stated of every step: a step that returns one
\* of the three errors, or that fails or changes another appointment
\* while its own is pending, confirmed or no_show, is no update that
\* keeps both times.
C26_SameTimesSkipChecks ==
    [][(lastOp'.op = "UpdateAppointment" /\ lastOp'.id \in IDs)
       => LET id == lastOp'.id
              timeError == lastOp'.err \in {ErrPast, ErrEndBeforeStart, ErrConflict}
              live == appts[id].status \in {AppointmentStatusPending,
                                            AppointmentStatusConfirmed,
                                            AppointmentStatusNoShow}
              done == /\ lastOp'.err = NoErr
                      /\ \A j \in IDs \ {id} : appts'[j] = appts[j]
          IN (timeError \/ (live /\ ~done))
             => \A s \in TimeInputs, e \in TimeInputs :
                   LET a == MergeRequest(appts[id], id, s, e, "", "")
                   IN (a.start = appts[id].start /\ a.end = appts[id].end)
                      => \A st \in StatusInputs :
                            ~UpdateAppointment(id, s, e, st, "")]_vars

\* An update that kept both times has succeeded on a no_show appointment
\* whose start is in the past, another appointment being stored.
C26_Witness ==
    /\ lastOp.op = "UpdateAppointment"
    /\ lastOp.err = NoErr
    /\ lastOp.id \in IDs
    /\ appts[lastOp.id].status = AppointmentStatusNoShow
    /\ appts[lastOp.id].start < now
    /\ Len(appts) > 1

\* C27: the conflict decision of CreateAppointment does not depend on
\* how many appointments of the doctor start inside the proposed window:
\* a valid proposal whose window intersects that of a non-cancelled
\* appointment starting inside it is rejected with the conflict error,
\* however many appointments start inside the window before that one.
C27_ConflictWhateverTheCrowd ==
    [][lastOp'.op = "CreateAppointment"
       => \A s \in {Hour, Hour + HalfHour} :
             (/\ CreateAppointment(1, 1, s, 2 * Hour)
              /\ ~InPast(s, now)
              /\ \E i \in IDs :
                    /\ appts[i].doctor = 1
                    /\ appts[i].status # AppointmentStatusCancelled
                    /\ s <= appts[i].start /\ appts[i].start <= 2 * Hour
                    /\ Intersect(appts[i], [start |-> s, end |-> 2 * Hour]))
             => lastOp'.err = ErrConflict]_vars

\* C28: of a CancelAppointment and a CompleteAppointment in flight on
\* the same confirmed appointment at most one succeeds, and the status
\* it wrote stays: a status that has become completed is never
\* overwritten with cancelled, nor cancelled with completed.
C28_FinalStatusNotOverwritten ==
    [][\A id \in IDs :
          /\ appts[id].status = AppointmentStatusCompleted
             => appts'[id].status # AppointmentStatusCancelled
          /\ appts[id].status = AppointmentStatusCancelled
             => appts'[id].status # AppointmentStatusCompleted]_vars

====
